---- MODULE Spec2Model ----
(***************************************************************************)
(* HavenoUtils (src/utils/HavenoUtils.ts): the currency unit conversions   *)
(* xmrToAtomicUnits, atomicUnitsToXmr and divideBI, modelled with the      *)
(* JavaScript semantics of the operations they are written with:           *)
(* typeof, String.prototype.indexOf/slice, BigInt(string), BigInt(number), *)
(* bigint * / %, Number(bigint), Math.pow and IEEE-754 double + and /.     *)
(*                                                                         *)
(* A JavaScript string is a sequence of one-character strings.  A bigint   *)
(* is a sign and a magnitude; a magnitude is a sequence of limbs in radix     *)
(* Base, most significant first, without leading zeros (zero is <<>>).     *)
(* A finite double is neg, mag, exp standing for (-1)^neg * mag * 2^exp    *)
(* with 2^52 <= mag < 2^53 (zero is mag = <<>>, exp = 0).                  *)
(***************************************************************************)
EXTENDS Integers, Sequences, FiniteSets

(***************************************************************************)
(* Natural numbers of arbitrary size (the magnitudes of bigints): limbs in *)
(* radix Base, most significant first, no leading zero limb.               *)
(***************************************************************************)
Base == 10000

Zeros(n) == [i \in 1..n |-> 0]

Strip(a) ==
    LET nz == {i \in 1..Len(a) : a[i] # 0}
    IN  IF nz = {} THEN <<>>
        ELSE SubSeq(a, CHOOSE i \in nz : \A j \in nz : i <= j, Len(a))

\* a natural below Base * Base
NatOfInt(n) ==
    IF n = 0 THEN <<>> ELSE IF n < Base THEN <<n>> ELSE <<n \div Base, n % Base>>

\* -1, 0 or 1 as a < b, a = b or a > b
NatCmp(a, b) ==
    IF Len(a) # Len(b) THEN (IF Len(a) < Len(b) THEN -1 ELSE 1)
    ELSE LET diff == {i \in 1..Len(a) : a[i] # b[i]}
         IN  IF diff = {} THEN 0
             ELSE LET m == CHOOSE i \in diff : \A j \in diff : i <= j
                  IN  IF a[m] < b[m] THEN -1 ELSE 1

NatLt(a, b) == NatCmp(a, b) = -1
NatLe(a, b) == NatCmp(a, b) # 1

\* the limb of a at position i of L positions, a aligned to the right
Limb(a, L, i) == IF i > L - Len(a) THEN a[i - (L - Len(a))] ELSE 0

\* the carry into position i of a sum with the limb sums s: a position below
\* i overflows and every position between passes the carry on
CarryInto(s, i) ==
    \E j \in (i + 1)..Len(s) :
        s[j] >= Base /\ \A k \in (i + 1)..(j - 1) : s[k] = Base - 1

AddLimbs(s) ==
    Strip([i \in 1..(Len(s) + 1) |->
              ((IF i = 1 THEN 0 ELSE s[i - 1])
               + (IF CarryInto(s, i - 1) THEN 1 ELSE 0)) % Base])

LimbSums(a, b, L) == [i \in 1..L |-> Limb(a, L, i) + Limb(b, L, i)]

NatAdd(a, b) ==
    IF a = <<>> THEN b
    ELSE IF b = <<>> THEN a
    ELSE AddLimbs(LimbSums(a, b, IF Len(a) > Len(b) THEN Len(a) ELSE Len(b)))

\* the borrow from position i of a difference with the limb differences d
BorrowFrom(d, i) ==
    \E j \in (i + 1)..Len(d) :
        d[j] < 0 /\ \A k \in (i + 1)..(j - 1) : d[k] = 0

SubLimbs(d) ==
    Strip([i \in 1..Len(d) |->
              (d[i] - (IF BorrowFrom(d, i) THEN 1 ELSE 0) + Base) % Base])

LimbDiffs(a, b) == [i \in 1..Len(a) |-> a[i] - Limb(b, Len(a), i)]

\* a - b for a >= b
NatSub(a, b) == IF b = <<>> THEN a ELSE SubLimbs(LimbDiffs(a, b))

\* a * k for 0 <= k < Base: the low halves of the limb products, plus the
\* high halves one position up
NatMulSmall(a, k) ==
    IF a = <<>> \/ k = 0 THEN <<>>
    ELSE NatAdd(Strip([i \in 1..(Len(a) + 1) |->
                          IF i > Len(a) THEN 0 ELSE (a[i] * k) \div Base]),
                Strip([i \in 1..Len(a) |-> (a[i] * k) % Base]))

\* a times the limbs lo..hi of b
RECURSIVE MulRange(_, _, _, _)
MulJoin(x, y, n) == IF x = <<>> THEN y ELSE NatAdd(x \o Zeros(n), y)
MulRange(a, b, lo, hi) ==
    IF lo = hi THEN NatMulSmall(a, b[lo])
    ELSE MulJoin(MulRange(a, b, lo, (lo + hi) \div 2),
                 MulRange(a, b, (lo + hi) \div 2 + 1, hi), hi - (lo + hi) \div 2)

NatMul(a, b) == IF a = <<>> \/ b = <<>> THEN <<>> ELSE MulRange(a, b, 1, Len(b))

\* floor(cur / b) for cur < b * Base and a divisor whose leading limb is at
\* least Base / 2: the estimate from the leading limbs is at most 2 too
\* large (Knuth, TAOCP 4.3.1, Theorem B)
QuotLimb(cur, b) ==
    IF NatLt(cur, b) THEN 0
    ELSE LET ct  == IF Len(cur) = Len(b) THEN cur[1] ELSE cur[1] * Base + cur[2]
             raw == ct \div b[1]
             est == IF raw > Base - 1 THEN Base - 1 ELSE raw
         IN  IF NatLe(NatMulSmall(b, est), cur) THEN est
             ELSE IF NatLe(NatMulSmall(b, est - 1), cur) THEN est - 1
             ELSE est - 2

\* the long division of the limbs lo..hi of a by b, rin the rest so far: the
\* quotient limbs and the rest
RECURSIVE DivRange(_, _, _, _, _)
DivLimb(cur, b, k) == [q |-> <<k>>, r |-> NatSub(cur, NatMulSmall(b, k))]
DivStep(cur, b) == DivLimb(cur, b, QuotLimb(cur, b))
DivCat(q, right) == [q |-> q \o right.q, r |-> right.r]
DivJoin(left, a, b, lo, hi) == DivCat(left.q, DivRange(a, b, lo, hi, left.r))
DivRange(a, b, lo, hi, rin) ==
    IF lo = hi THEN DivStep(Strip(Append(rin, a[lo])), b)
    ELSE DivJoin(DivRange(a, b, lo, (lo + hi) \div 2, rin), a, b,
                 (lo + hi) \div 2 + 1, hi)

\* the quotient of the scaled operands is that of a and b
LongDiv(an, bn) == Strip(DivRange(an, bn, 1, Len(an), <<>>).q)
DivRest(a, b, q) == [q |-> q, r |-> NatSub(a, NatMul(q, b))]
DivScaled(a, b, f) == DivRest(a, b, LongDiv(NatMulSmall(a, f), NatMulSmall(b, f)))

\* floor(a / b) and a mod b for b # 0: long division, both scaled so that
\* the divisor's leading limb is at least Base / 2
NatDivMod(a, b) ==
    IF a = <<>> THEN [q |-> <<>>, r |-> <<>>] ELSE DivScaled(a, b, Base \div (b[1] + 1))

\* n^k for a natural 2 <= n <= 10, by squaring; h is n^(k \div 2)
RECURSIVE NatPow(_, _)
NatPowStep(n, k, h) == IF k % 2 = 0 THEN NatMul(h, h) ELSE NatMulSmall(NatMul(h, h), n)
NatPow(n, k) == IF k < 8 THEN NatOfInt(n^k) ELSE NatPowStep(n, k, NatPow(n, k \div 2))

\* the powers of two
Pow2(k) == NatPow(2, k)
Pow10(k) == NatPow(10, k)
TwoTo52 == Pow2(52)
TwoTo53 == Pow2(53)

\* a * 2^s for s > 0, a otherwise
Scale2(a, s) == IF s > 0 THEN NatMul(a, Pow2(s)) ELSE a

(***************************************************************************)
(* IEEE-754 doubles (JavaScript numbers).  cls is "finite", "Infinity" or  *)
(* "NaN"; a finite value is (-1)^neg * mag * 2^exp, 2^52 <= mag < 2^53.    *)
(***************************************************************************)
Finite(neg, mag, exp) == [cls |-> "finite", neg |-> neg, mag |-> mag, exp |-> exp]
DZero == Finite(FALSE, <<>>, 0)
DSignedZero(neg) == Finite(neg, <<>>, 0)
DInf(neg) == [cls |-> "Infinity", neg |-> neg, mag |-> <<>>, exp |-> 0]
DNaN == [cls |-> "NaN", neg |-> FALSE, mag |-> <<>>, exp |-> 0]

\* 2^f <= n / d
Pow2Le(f, n, d) ==
    IF f > 0 THEN NatCmp(NatMul(d, Pow2(f)), n) # 1
    ELSE NatCmp(d, NatMul(n, Pow2(-f))) # 1

\* the largest f in lo..hi with 2^f <= n / d, given 2^lo <= n / d
RECURSIVE FloorLog2In(_, _, _, _)
FloorLog2In(n, d, lo, hi) ==
    IF lo = hi THEN lo
    ELSE IF Pow2Le((lo + hi + 1) \div 2, n, d)
         THEN FloorLog2In(n, d, (lo + hi + 1) \div 2, hi)
         ELSE FloorLog2In(n, d, lo, (lo + hi + 1) \div 2 - 1)

\* floor(log2(x)) for an integer 1 <= x < 2^31
ILog2(x) == Cardinality({k \in 1..30 : 2^k <= x})

\* the leading two limbs of a as an integer
Lead2(a) == IF Len(a) = 1 THEN a[1] ELSE a[1] * Base + a[2]

\* floor(log2(n / d)) for n, d > 0, searched between bounds from the leading
\* limbs: nt * Base^sn <= n < (nt + 1) * Base^sn, likewise d, and
\* 13.2877 < log2(Base) < 13.2878
FloorLog2(n, d) ==
    LET nt == Lead2(n)
        dt == Lead2(d)
        m  == (IF Len(n) > 2 THEN Len(n) - 2 ELSE 0) - (IF Len(d) > 2 THEN Len(d) - 2 ELSE 0)
        lo == ILog2(nt) - ILog2(dt + 1) - 1
              + (IF m >= 0 THEN 132877 * m ELSE 132878 * m) \div 10000
        hi == ILog2(nt + 1) - ILog2(dt) + 1
              + (IF m >= 0 THEN 132878 * m ELSE 132877 * m) \div 10000 + 1
    IN  FloorLog2In(n, d, lo, hi)

\* the mantissa m at exponent e, carried into the next binade at 2^53
Renormalize(neg, m, e) ==
    IF m = TwoTo53 THEN Finite(neg, TwoTo52, e + 1) ELSE Finite(neg, m, e)

\* is the quotient q of an inexact division rounded away from zero, c
\* comparing twice the rest to the divisor
RoundsUp(dir, q, c) ==
    CASE dir = "nearest" -> c = 1 \/ (c = 0 /\ q[Len(q)] % 2 = 1)
      [] dir = "down"    -> FALSE
      [] dir = "up"      -> TRUE

RoundRest(neg, dir, e, D, qr) ==
    IF qr.r = <<>> THEN Finite(neg, qr.q, e)
    ELSE IF RoundsUp(dir, qr.q, NatCmp(NatMulSmall(qr.r, 2), D))
         THEN Renormalize(neg, NatAdd(qr.q, <<1>>), e)
         ELSE Finite(neg, qr.q, e)
RoundDiv(neg, dir, e, N, D) == RoundRest(neg, dir, e, D, NatDivMod(N, D))
RoundAt(neg, n, d, dir, e) ==
    IF e > 0 THEN RoundDiv(neg, dir, e, n, NatMul(d, Pow2(e)))
    ELSE RoundDiv(neg, dir, e, NatMul(n, Pow2(-e)), d)

\* (-1)^neg * n / d as a double, for d > 0 and a quotient within the range
\* of the normal doubles: the nearest one, ties to even (dir = "nearest"),
\* or the neighbour below ("down") or above ("up") in magnitude
RoundRatDir(neg, n, d, dir) ==
    IF n = <<>> THEN DZero ELSE RoundAt(neg, n, d, dir, FloorLog2(n, d) - 52)

\* IEEE-754 round to nearest, ties to even
RoundRat(neg, n, d) == RoundRatDir(neg, n, d, "nearest")

\* x / y on numbers
DDiv(x, y) ==
    IF x.cls = "NaN" \/ y.cls = "NaN" THEN DNaN
    ELSE IF x.cls = "Infinity"
         THEN (IF y.cls = "Infinity" THEN DNaN ELSE DInf(x.neg # y.neg))
    ELSE IF y.cls = "Infinity" THEN DSignedZero(x.neg # y.neg)
    ELSE IF y.mag = <<>> THEN (IF x.mag = <<>> THEN DNaN ELSE DInf(x.neg # y.neg))
    ELSE IF x.mag = <<>> THEN DSignedZero(x.neg # y.neg)
    ELSE RoundRat(x.neg # y.neg, Scale2(x.mag, x.exp - y.exp),
                  Scale2(y.mag, y.exp - x.exp))

\* the sum of (-1)^xn * a * 2^e0 and (-1)^yn * b * 2^e0, c comparing a to b
AddSigned(xn, a, yn, b, e0, c) ==
    IF xn = yn THEN RoundRat(xn, Scale2(NatAdd(a, b), e0), Scale2(<<1>>, -e0))
    ELSE IF c = 0 THEN DZero
    ELSE IF c = 1 THEN RoundRat(xn, Scale2(NatSub(a, b), e0), Scale2(<<1>>, -e0))
    ELSE RoundRat(yn, Scale2(NatSub(b, a), e0), Scale2(<<1>>, -e0))
AddAligned(xn, a, yn, b, e0) == AddSigned(xn, a, yn, b, e0, NatCmp(a, b))
AddFinite(x, y, e0) ==
    AddAligned(x.neg, Scale2(x.mag, x.exp - e0), y.neg, Scale2(y.mag, y.exp - e0), e0)

\* x + y on numbers
DAdd(x, y) ==
    IF x.cls = "NaN" \/ y.cls = "NaN" THEN DNaN
    ELSE IF x.cls = "Infinity"
         THEN (IF y.cls = "Infinity" /\ x.neg # y.neg THEN DNaN ELSE x)
    ELSE IF y.cls = "Infinity" THEN y
    ELSE IF x.mag = <<>> THEN (IF y.mag = <<>> THEN DSignedZero(x.neg /\ y.neg) ELSE y)
    ELSE IF y.mag = <<>> THEN x
    ELSE AddFinite(x, y, IF x.exp < y.exp THEN x.exp ELSE y.exp)

\* Math.pow(10, k) for an integer k >= 0.  ECMAScript leaves Math.pow
\* implementation-approximated: where 10^k is a double (k <= 22) every dir
\* gives it; beyond, the engine returns one of the two doubles next to 10^k
\* (dir picks which); 10^309 is beyond the largest double.
MathPow10(k, dir) ==
    IF k > 308 THEN DInf(FALSE) ELSE RoundRatDir(FALSE, Pow10(k), <<1>>, dir)

(***************************************************************************)
(* bigints: [neg, mag], zero is never negative.                            *)
(***************************************************************************)
BI(neg, mag) == [neg |-> neg /\ mag # <<>>, mag |-> mag]

BigIntMul(x, y) == BI(x.neg # y.neg, NatMul(x.mag, y.mag))

\* x / y rounds towards zero; y # 0n
BigIntDiv(x, y) == BI(x.neg # y.neg, NatDivMod(x.mag, y.mag).q)

\* x % y has the sign of x; y # 0n
BigIntRem(x, y) == BI(x.neg, NatDivMod(x.mag, y.mag).r)

\* Number(x) of a bigint
NumberOfBigInt(x) == RoundRat(x.neg, x.mag, <<1>>)

\* BigInt(x) of a number: [ok, val]; a RangeError unless x is an integer
IntegerOfQuot(neg, qr) == [ok |-> qr.r = <<>>, val |-> BI(neg, qr.q)]
BigIntOfNumber(x) ==
    IF x.cls # "finite" THEN [ok |-> FALSE, val |-> BI(FALSE, <<>>)]
    ELSE IntegerOfQuot(x.neg, NatDivMod(Scale2(x.mag, x.exp), Scale2(<<1>>, -x.exp)))

(***************************************************************************)
(* Strings: sequences of one-character strings.                            *)
(***************************************************************************)
HexChars == <<"0", "1", "2", "3", "4", "5", "6", "7", "8", "9",
              "a", "b", "c", "d", "e", "f">>
WhiteSpace == {" ", "\t", "\n"}

IsDigit(c, radix) == \E i \in 1..radix : HexChars[i] = c
DigitOf(c) == (CHOOSE i \in 1..16 : HexChars[i] = c) - 1

\* String.prototype.indexOf of one character: 0-based, -1 when absent
IndexOf(s, c) ==
    LET at == {i \in 1..Len(s) : s[i] = c}
    IN  IF at = {} THEN -1 ELSE (CHOOSE i \in at : \A j \in at : i <= j) - 1

\* String.prototype.slice(from, to) and slice(from) for 0 <= from
Slice(s, from, to) == SubSeq(s, from + 1, to)
SliceFrom(s, from) == SubSeq(s, from + 1, Len(s))

\* the string without leading and trailing white space
Trim(s) ==
    LET ink == {i \in 1..Len(s) : s[i] \notin WhiteSpace}
    IN  IF ink = {} THEN <<>>
        ELSE SubSeq(s, CHOOSE i \in ink : \A j \in ink : i <= j,
                       CHOOSE i \in ink : \A j \in ink : i >= j)

\* the natural a string of decimal digits denotes: four digits to a limb
DecToNat(ds) ==
    LET n   == Len(ds)
        L   == (n + 3) \div 4
        pad == 4 * L - n
        D(k) == IF k <= 0 THEN 0 ELSE DigitOf(ds[k])
    IN  Strip([j \in 1..L |-> D(4 * j - 3 - pad) * 1000 + D(4 * j - 2 - pad) * 100
                              + D(4 * j - 1 - pad) * 10 + D(4 * j - pad)])

\* the natural the first i digits of ds denote in a radix of 2, 8 or 16
RECURSIVE RadixToNatAt(_, _, _)
RadixToNatAt(ds, radix, i) ==
    IF i = 0 THEN <<>>
    ELSE NatAdd(NatMulSmall(RadixToNatAt(ds, radix, i - 1), radix),
                NatOfInt(DigitOf(ds[i])))

\* the radix a trimmed, non-empty literal is written in
RadixOf(t) ==
    IF Len(t) >= 2 /\ t[1] = "0"
    THEN CASE t[2] \in {"x", "X"} -> 16
           [] t[2] \in {"o", "O"} -> 8
           [] t[2] \in {"b", "B"} -> 2
           [] OTHER -> 10
    ELSE 10

ParseDigits(radix, neg, ds) ==
    IF ds = <<>> \/ \E i \in 1..Len(ds) : ~IsDigit(ds[i], radix)
    THEN [ok |-> FALSE, val |-> BI(FALSE, <<>>)]
    ELSE [ok |-> TRUE,
          val |-> BI(neg, IF radix = 10 THEN DecToNat(ds)
                          ELSE RadixToNatAt(ds, radix, Len(ds)))]

ParseLiteral(t, radix) ==
    ParseDigits(radix, t[1] = "-",
                IF radix # 10 THEN SubSeq(t, 3, Len(t))
                ELSE IF t[1] \in {"+", "-"} THEN Tail(t) ELSE t)

ParseTrimmed(t) ==
    IF t = <<>> THEN [ok |-> TRUE, val |-> BI(FALSE, <<>>)]
    ELSE ParseLiteral(t, RadixOf(t))

\* StringToBigInt (ECMAScript 7.1.14) behind BigInt(string): [ok, val]; a
\* SyntaxError unless the trimmed string is empty (0n), an optionally signed
\* run of decimal digits, or an unsigned 0x / 0o / 0b literal
StringToBigInt(s) == ParseTrimmed(Trim(s))

(***************************************************************************)
(* JavaScript values passed to the functions, and what a call ends with.   *)
(* A number argument is held by its Number::toString rendering, which is   *)
(* all that the functions read of it.                                      *)
(***************************************************************************)
JSString(s) == [t |-> "string", str |-> s, big |-> BI(FALSE, <<>>)]
JSNumber(s) == [t |-> "number", str |-> s, big |-> BI(FALSE, <<>>)]
JSBigInt(b) == [t |-> "bigint", str |-> <<>>, big |-> b]
JSNull      == [t |-> "null", str |-> <<>>, big |-> BI(FALSE, <<>>)]
JSObject    == [t |-> "object", str |-> <<>>, big |-> BI(FALSE, <<>>)]
JSUndefined == [t |-> "undefined", str |-> <<>>, big |-> BI(FALSE, <<>>)]

\* the typeof operator
Typeof(v) == IF v.t = "null" THEN "object" ELSE v.t

\* "" + amountXmr for a number
NumberToString(v) == v.str

NoRet        == [kind |-> "none", big |-> BI(FALSE, <<>>), num |-> DZero, err |-> ""]
Throw(e)     == [kind |-> "throw", big |-> BI(FALSE, <<>>), num |-> DZero, err |-> e]
ReturnBig(b) == [kind |-> "bigint", big |-> b, num |-> DZero, err |-> ""]
ReturnNum(d) == [kind |-> "number", big |-> BI(FALSE, <<>>), num |-> d, err |-> ""]

(***************************************************************************)
(* HavenoUtils                                                             *)
(***************************************************************************)
\* the static members of the class
StaticMembers ==
    {"logLevel", "months", "lastLogTimeMs", "AU_PER_XMR", "setLogLevel",
     "getLogLevel", "log", "formatTimestamp", "kill", "formToString",
     "getFormValue", "setFormValue", "waitFor", "divideBI", "xmrToAtomicUnits",
     "atomicUnitsToXmr"}

AU_PER_XMR == BI(FALSE, <<1, 0, 0, 0>>)

\* the number literals 1 and 100
DOne == RoundRat(FALSE, <<1>>, <<1>>)
DHundred == RoundRat(FALSE, <<100>>, <<1>>)

\* (a faulty variant: the quotient is not divided by 100 again)
DivideBIUnscaled(a, b) ==
    IF b.mag = <<>> THEN Throw("RangeError")
    ELSE ReturnNum(NumberOfBigInt(BigIntDiv(BigIntMul(a, BI(FALSE, <<100>>)), b)))

\* (a faulty variant: the division is made on numbers, which never throws)
DivideBIOnNumbers(a, b) ==
    ReturnNum(DDiv(DDiv(NumberOfBigInt(BigIntMul(a, BI(FALSE, <<100>>))),
                        NumberOfBigInt(b)), DHundred))

\* static divideBI(a: bigint, b: bigint): number
DivideBI(a, b) ==
    IF b.mag = <<>> THEN Throw("RangeError")
    ELSE ReturnNum(DDiv(NumberOfBigInt(BigIntDiv(BigIntMul(a, BI(FALSE, <<100>>)), b)),
                        DHundred))

\* (a faulty variant: the exponent counts the decimal point as a digit)
DecimalDivisorOffByOne(amountXmr, decimalIdx, dir) ==
    MathPow10(Len(amountXmr) - decimalIdx, dir)

\* Math.pow(10, amountXmr.length - decimalIdx - 1)
DecimalDivisor(amountXmr, decimalIdx, dir) ==
    MathPow10(Len(amountXmr) - decimalIdx - 1, dir)

\* BigInt(amountXmr) * BigInt(AU_PER_XMR) / BigInt(decimalDivisor)
XmrQuotient(intVal, divisor) ==
    IF ~intVal.ok THEN Throw("SyntaxError")
    ELSE IF ~divisor.ok THEN Throw("RangeError")
    ELSE ReturnBig(BigIntDiv(BigIntMul(intVal.val, AU_PER_XMR), divisor.val))

\* the divisor and the string without its first decimal point
XmrSplit(amountXmr, decimalIdx, dir) ==
    XmrQuotient(StringToBigInt(IF decimalIdx > -1
                               THEN Slice(amountXmr, 0, decimalIdx)
                                    \o SliceFrom(amountXmr, decimalIdx + 1)
                               ELSE amountXmr),
                BigIntOfNumber(IF decimalIdx > -1
                               THEN DecimalDivisor(amountXmr, decimalIdx, dir)
                               ELSE DOne))

\* (a faulty variant: only undefined is refused)
XmrTypeRejectedUndefinedOnly(v) == Typeof(v) = "undefined"

\* the guard of xmrToAtomicUnits: neither a number nor a string
XmrTypeRejected(v) == Typeof(v) # "number" /\ Typeof(v) # "string"

\* static xmrToAtomicUnits(amountXmr: number|string): BigInt
\* (dir: which double Math.pow returns where 10^k is not one)
XmrToAtomicUnits(v, dir) ==
    IF XmrTypeRejected(v) THEN Throw("Error")
    ELSE LET amountXmr == IF Typeof(v) = "number" THEN NumberToString(v) ELSE v.str
         IN  XmrSplit(amountXmr, IndexOf(amountXmr, "."), dir)

\* (a faulty variant: the remainder is added without being divided)
ReconstructUndivided(quotient, remainder) ==
    DAdd(NumberOfBigInt(quotient), NumberOfBigInt(remainder))

\* Number(quotient) + Number(remainder) / Number(AU_PER_XMR)
Reconstruct(quotient, remainder) ==
    DAdd(NumberOfBigInt(quotient),
         DDiv(NumberOfBigInt(remainder), NumberOfBigInt(AU_PER_XMR)))

AuConvert(ty, amount) ==
    IF ty = "string" /\ ~amount.ok THEN Throw("SyntaxError")
    ELSE IF ty # "string" /\ ty # "bigint" THEN Throw("Error")
    ELSE ReturnNum(Reconstruct(BigIntDiv(amount.val, AU_PER_XMR),
                               BigIntRem(amount.val, AU_PER_XMR)))

\* static atomicUnitsToXmr(amountAtomicUnits: BigInt|string)
AtomicUnitsToXmr(v) ==
    AuConvert(Typeof(v), IF Typeof(v) = "string" THEN StringToBigInt(v.str)
                         ELSE [ok |-> TRUE, val |-> v.big])

(***************************************************************************)
(* The calls made of the class: the arguments are drawn from bounded sets. *)
(***************************************************************************)
MaxLen == 3
MaxBI == 6

Alphabet == {"0", "1", "5", ".", "-", " "}
ShortStrings == UNION {[1..n -> Alphabet] : n \in 0..MaxLen}

StrZeros(n) == [i \in 1..n |-> "0"]

\* sign int . 0..0 tail 0..0
Signs == {<<>>, <<"-">>}
IntParts == {<<"0">>, <<"1">>, <<"2">>, <<"2", "0", "0", "0", "0">>}
LeadZeros == {0, 11}
FracTails == {<<>>, <<"5">>, <<"1">>, <<"1", "9">>, <<"1", "4">>}
TrailZeros == {0, 1, 10, 11, 12, 20, 21, 22, 23, 309}
LongStrings ==
    {sg \o ip \o <<".">> \o StrZeros(lz) \o ft \o StrZeros(tz) :
        sg \in Signs, ip \in IntParts, lz \in LeadZeros, ft \in FracTails,
        tz \in TrailZeros}

SpecialStrings ==
    {<<" ", "1", ".", "5", " ">>, <<"1", ".", "5", "\n">>, <<"\t", "1", ".", "5">>,
     <<"0", "x", "1", "0">>, <<"0", "x", "1", ".", "0">>, <<"0", "b", "1", "1">>,
     <<"1", ".", "2", ".", "3">>, <<"+", "1", ".", "5">>, <<"1", "e", "-", "7">>,
     <<"1", "0", "0", "0", "0", "0", "0", "0", "0", "0", "0", "0", "0">>,
     <<"1", "5", "0", "0", "0", "0", "0", "0", "0", "0", "0", "0", "0">>,
     <<"-", "2", "5", "0", "0", "0", "0", "0", "0", "0", "0", "0", "0">>,
     <<"9", "0", "0", "7", "1", "9", "9", "2", "5", "4", "7", "4", "0", "9", "9", "3">>,
     <<"1", ".", "1">> \o StrZeros(100), <<"1", ".", "1">> \o StrZeros(300)}

\* Number::toString renderings of numbers
NumberStrings ==
    {<<"0">>, <<"1">>, <<"1", ".", "5">>, <<"-", "2", ".", "5">>, <<"0", ".", "1">>,
     <<"1", "e", "-", "7">>, <<"1", ".", "5", "e", "-", "7">>,
     <<"1", "e", "+", "2", "1">>, <<"N", "a", "N">>,
     <<"I", "n", "f", "i", "n", "i", "t", "y">>,
     <<"-", "I", "n", "f", "i", "n", "i", "t", "y">>,
     <<"0", ".", "3", "0", "0", "0", "0", "0", "0", "0", "0", "0", "0", "0", "0",
       "0", "0", "0", "4">>}

IntToBI(n) == BI(n < 0, NatOfInt(IF n < 0 THEN -n ELSE n))

BigInts ==
    {IntToBI(n) : n \in -MaxBI..MaxBI}
    \cup {BI(sg, m) : sg \in BOOLEAN,
                      m \in {<<1, 0, 0, 0>>, <<1, 5000, 0, 0>>, <<2, 5000, 0, 0>>,
                             <<9999, 9999, 9999>>, <<1, 0, 0, 1>>,
                             <<9007, 1992, 5474, 993>>,
                             <<9007, 1992, 5474, 993, 0, 0, 0>>}}

Values ==
    {JSString(s) : s \in ShortStrings \cup LongStrings \cup SpecialStrings}
    \cup {JSNumber(s) : s \in NumberStrings}
    \cup {JSBigInt(b) : b \in BigInts}
    \cup {JSNull, JSObject, JSUndefined}

Calls ==
    {[fn |-> f, args |-> <<v>>] :
        f \in {"xmrToAtomicUnits", "atomicUnitsToXmr"}, v \in Values}
    \cup {[fn |-> "divideBI", args |-> <<JSBigInt(a), JSBigInt(b)>>] :
            a \in BigInts, b \in BigInts}
    \cup {[fn |-> "centinerosToAtomicUnits", args |-> <<JSBigInt(IntToBI(c))>>] :
            c \in 0..MaxBI}

VARIABLES
    call,   \* the call: the member of HavenoUtils invoked and its arguments
    pc,     \* "call" before the call, "done" after it
    ret,    \* what the call ended with
    src     \* <<d>> when the argument is what xmrToAtomicUnits(d) returned

vars == <<call, pc, ret, src>>

Init ==
    /\ call \in Calls
    /\ pc = "call"
    /\ ret = NoRet
    /\ src = <<>>

CallXmrToAtomicUnits ==
    /\ pc = "call"
    /\ call.fn = "xmrToAtomicUnits"
    /\ \E dir \in {"down", "up"} : ret' = XmrToAtomicUnits(call.args[1], dir)
    /\ pc' = "done"
    /\ UNCHANGED <<call, src>>

CallAtomicUnitsToXmr ==
    /\ pc = "call"
    /\ call.fn = "atomicUnitsToXmr"
    /\ ret' = AtomicUnitsToXmr(call.args[1])
    /\ pc' = "done"
    /\ UNCHANGED <<call, src>>

\* the caller passes what xmrToAtomicUnits(d) returned on to atomicUnitsToXmr
PassOn ==
    /\ pc = "done"
    /\ call.fn = "xmrToAtomicUnits"
    /\ ret.kind = "bigint"
    /\ call' = [fn |-> "atomicUnitsToXmr", args |-> <<JSBigInt(ret.big)>>]
    /\ src' = call.args
    /\ ret' = NoRet
    /\ pc' = "call"

CallDivideBI ==
    /\ pc = "call"
    /\ call.fn = "divideBI"
    /\ ret' = DivideBI(call.args[1].big, call.args[2].big)
    /\ pc' = "done"
    /\ UNCHANGED <<call, src>>

\* a member the class does not have is undefined, and calling it a TypeError
CallMissingMember ==
    /\ pc = "call"
    /\ call.fn \notin StaticMembers
    /\ ret' = Throw("TypeError")
    /\ pc' = "done"
    /\ UNCHANGED <<call, src>>

Next ==
    \/ CallXmrToAtomicUnits
    \/ CallAtomicUnitsToXmr
    \/ PassOn
    \/ CallDivideBI
    \/ CallMissingMember

Spec == Init /\ [][Next]_vars

(***************************************************************************)
(* Decimal notation, read off the characters: what the properties below    *)
(* compare the conversions with.                                           *)
(***************************************************************************)
DecNeg(s) == s # <<>> /\ s[1] = "-"
DecBody(s) == IF s # <<>> /\ s[1] \in {"-", "+"} THEN Tail(s) ELSE s
DecPoint(s) == IndexOf(DecBody(s), ".")
DecInt(s) == IF DecPoint(s) = -1 THEN DecBody(s) ELSE SubSeq(DecBody(s), 1, DecPoint(s))
DecFrac(s) ==
    IF DecPoint(s) = -1 THEN <<>>
    ELSE SubSeq(DecBody(s), DecPoint(s) + 2, Len(DecBody(s)))
AllDigits(ds) == \A i \in 1..Len(ds) : IsDigit(ds[i], 10)

\* an optional '-', one or more digits, optionally a '.' and digits
IsPlainDecimal(s) ==
    /\ s # <<>> /\ s[1] # "+"
    /\ DecInt(s) # <<>> /\ AllDigits(DecInt(s)) /\ AllDigits(DecFrac(s))

\* an optional sign, digits with at most one '.', at least one digit
IsLooseDecimal(s) ==
    /\ DecInt(s) \o DecFrac(s) # <<>>
    /\ AllDigits(DecInt(s)) /\ AllDigits(DecFrac(s))

\* trunc(|d| * 10^12): the digits of d up to the twelfth fractional one
AtomicDigits(s) ==
    DecToNat(DecInt(s) \o SubSeq(DecFrac(s) \o StrZeros(12), 1, 12))
AtomicOf(s) == BI(DecNeg(s), AtomicDigits(s))

\* the number the decimal d denotes in JavaScript: the double nearest to it
DoubleOfDecimal(s) ==
    RoundRat(DecNeg(s), DecToNat(DecInt(s) \o DecFrac(s)), Pow10(Len(DecFrac(s))))

\* | x - d | <= 10^-12 * max(1, |d| / 4096) for a finite double x and a
\* decimal d of at most 12 fractional digits.  With D = |d| * 10^12, and a, b
\* and u standing for |x| * 10^12, D and 1 scaled by the power of two in x,
\* this is 4096 * 10^12 * | a -+ b | <= u * max(4096 * 10^12, D)
ToleranceUnit == <<4096, 0, 0, 0>>
NatMax(a, b) == IF NatLe(a, b) THEN b ELSE a
NatDist(a, b) == IF NatLe(a, b) THEN NatSub(b, a) ELSE NatSub(a, b)
ScaledWithin(a, b, u, D, same) ==
    NatLe(NatMul(IF same THEN NatDist(a, b) ELSE NatAdd(a, b), ToleranceUnit),
          NatMul(u, NatMax(ToleranceUnit, D)))
WithinTolerance(x, s) ==
    /\ x.cls = "finite"
    /\ ScaledWithin(Scale2(NatMul(x.mag, Pow10(12)), x.exp),
                    Scale2(AtomicDigits(s), -x.exp),
                    Scale2(<<1>>, -x.exp), AtomicDigits(s),
                    x.neg = DecNeg(s) \/ x.mag = <<>> \/ AtomicDigits(s) = <<>>)

\* a bigint of one limb as an integer
SmallInt(x) == IF x.mag = <<>> THEN 0 ELSE IF x.neg THEN -x.mag[1] ELSE x.mag[1]
IsSmall(x) == Len(x.mag) <= 1
Abs(n) == IF n < 0 THEN -n ELSE n

XmrDone == pc = "done" /\ call.fn = "xmrToAtomicUnits"
AuDone == pc = "done" /\ call.fn = "atomicUnitsToXmr"
DivDone == pc = "done" /\ call.fn = "divideBI"
Arg == call.args[1]

(***************************************************************************)
(* C1: for every decimal string d (optional '-', digits, optionally '.'    *)
(* and at most 12 digits) xmrToAtomicUnits(d) returns exactly d * 10^12;   *)
(* without a decimal point d counts whole units.                           *)
(***************************************************************************)
C1_ExactConversion ==
    (XmrDone /\ Arg.t = "string" /\ IsPlainDecimal(Arg.str) /\ Len(DecFrac(Arg.str)) <= 12)
        => ret = ReturnBig(AtomicOf(Arg.str))

\* xmrToAtomicUnits("-2.5") has returned -2500000000000
C1_Witness ==
    /\ XmrDone
    /\ Arg = JSString(<<"-", "2", ".", "5">>)
    /\ ret = ReturnBig(BI(TRUE, <<2, 5000, 0, 0>>))

(***************************************************************************)
(* The decimal amount a number denotes, read off its Number::toString      *)
(* rendering: a mantissa, and in exponent notation "e", a sign and digits. *)
(***************************************************************************)
ExpAt(s) == IndexOf(s, "e")
Mantissa(s) == IF ExpAt(s) = -1 THEN s ELSE SubSeq(s, 1, ExpAt(s))
ExpDigits(s) == SubSeq(s, ExpAt(s) + 3, Len(s))
Exponent(s) ==
    IF ExpAt(s) = -1 THEN 0
    ELSE (IF s[ExpAt(s) + 2] = "-" THEN -1 ELSE 1) * Lead2(DecToNat(ExpDigits(s)))
FracDigits(s) ==
    IF Len(DecFrac(Mantissa(s))) > Exponent(s)
    THEN Len(DecFrac(Mantissa(s))) - Exponent(s) ELSE 0

\* a decimal amount of at most 12 fractional digits, as a string or a number
IsAmount(v) ==
    \/ /\ v.t = "string"
       /\ IsPlainDecimal(v.str) /\ Len(DecFrac(v.str)) <= 12
    \/ /\ v.t = "number"
       /\ IsPlainDecimal(Mantissa(v.str))
       /\ ExpAt(v.str) # -1 => (ExpDigits(v.str) # <<>> /\ AllDigits(ExpDigits(v.str)))
       /\ FracDigits(v.str) <= 12

(***************************************************************************)
(* C2 as stated: for every decimal amount d of at most 12 fractional       *)
(* digits, negative ones included, xmrToAtomicUnits(d) returns an amount   *)
(* a, and atomicUnitsToXmr(a) returns d (read with the floating tolerance  *)
(* of the round trip: within 10^-12 * max(1, |d| / 4096) of d).            *)
(***************************************************************************)
C2_RoundTrip ==
    /\ (XmrDone /\ IsAmount(Arg)) => ret.kind = "bigint"
    /\ (AuDone /\ src # <<>> /\ IsAmount(src[1]) /\ ExpAt(src[1].str) = -1)
            => (ret.kind = "number" /\ WithinTolerance(ret.num, src[1].str))

(***************************************************************************)
(* C3 as stated: xmrToAtomicUnits("") fails; it never returns a value.     *)
(***************************************************************************)
C3_EmptyStringFails ==
    (XmrDone /\ Arg = JSString(<<>>)) => ret.kind = "throw"

(***************************************************************************)
(* C4: xmrToAtomicUnits of a value that is neither a string nor a number   *)
(* throws the function's own Error, before anything is converted, and      *)
(* returns nothing.                                                        *)
(***************************************************************************)
C4_RejectsOtherTypes ==
    (XmrDone /\ Typeof(Arg) \notin {"string", "number"}) => ret = Throw("Error")

\* xmrToAtomicUnits(null) has thrown
C4_Witness == XmrDone /\ Arg = JSNull /\ ret = Throw("Error")

(***************************************************************************)
(* C5 as stated: for b # 0 divideBI(a, b) returns a / b rounded to two     *)
(* decimal places: the number nearest to the hundredth nearest to a / b.   *)
(***************************************************************************)
NearestHundredth(a, b) == (2 * 100 * Abs(a) + Abs(b)) \div (2 * Abs(b))

C5_RoundedToTwoPlaces ==
    (DivDone /\ IsSmall(call.args[1].big) /\ IsSmall(call.args[2].big)
             /\ SmallInt(call.args[2].big) # 0)
        => ret = ReturnNum(RoundRat((SmallInt(call.args[1].big) < 0)
                                        # (SmallInt(call.args[2].big) < 0),
                                    NatOfInt(NearestHundredth(SmallInt(call.args[1].big),
                                                              SmallInt(call.args[2].big))),
                                    <<100>>))

(***************************************************************************)
(* C5 as amended: for b # 0 divideBI(a, b) takes the integer quotient of   *)
(* a * 100 by b, truncated towards zero, and returns that integer divided  *)
(* by 100: a / b cut, not rounded, to two decimal places                   *)
(* (divideBI(1, 3) = 0.33, divideBI(2, 4) = 0.5, divideBI(2, 3) = 0.66,    *)
(* divideBI(-1, 3) = -0.33).                                               *)
(***************************************************************************)
TruncatedHundredths(a, b) == (100 * Abs(a)) \div Abs(b)

\* | a * 100 / b | cut to an integer, for bigints a and b # 0
HundredthsOf(a, b) == NatDivMod(NatMulSmall(a.mag, 100), b.mag).q

DivideBIOf(a, b, x) ==
    (DivDone /\ call.args[1].big = IntToBI(a) /\ call.args[2].big = IntToBI(b))
        => ret = ReturnNum(x)

C5_TruncatedToTwoPlaces ==
    /\ (DivDone /\ IsSmall(call.args[1].big) /\ IsSmall(call.args[2].big)
                /\ SmallInt(call.args[2].big) # 0)
           => ret = ReturnNum(RoundRat((SmallInt(call.args[1].big) < 0)
                                           # (SmallInt(call.args[2].big) < 0),
                                       NatOfInt(TruncatedHundredths(
                                           SmallInt(call.args[1].big),
                                           SmallInt(call.args[2].big))),
                                       <<100>>))
    /\ (DivDone /\ call.args[2].big.mag # <<>>
                /\ NatLt(HundredthsOf(call.args[1].big, call.args[2].big), TwoTo53))
           => ret = ReturnNum(RoundRat(call.args[1].big.neg # call.args[2].big.neg,
                                       HundredthsOf(call.args[1].big, call.args[2].big),
                                       <<100>>))
    /\ DivideBIOf(1, 3, DoubleOfDecimal(<<"0", ".", "3", "3">>))
    /\ DivideBIOf(2, 4, DoubleOfDecimal(<<"0", ".", "5">>))
    /\ DivideBIOf(2, 3, DoubleOfDecimal(<<"0", ".", "6", "6">>))
    /\ DivideBIOf(-1, 3, DoubleOfDecimal(<<"-", "0", ".", "3", "3">>))

\* divideBI(2, 3) has returned 0.66
C5_Witness ==
    /\ DivDone
    /\ call.args = <<JSBigInt(IntToBI(2)), JSBigInt(IntToBI(3))>>
    /\ ret = ReturnNum(DoubleOfDecimal(<<"0", ".", "6", "6">>))

(***************************************************************************)
(* C6: for every a, a = 0 included, divideBI(a, 0) throws (the RangeError  *)
(* of the bigint division by zero) and returns no number.                  *)
(***************************************************************************)
C6_DivisionByZeroThrows ==
    (DivDone /\ call.args[2].big.mag = <<>>) => ret = Throw("RangeError")

\* divideBI(0, 0) has thrown
C6_Witness ==
    /\ DivDone
    /\ call.args = <<JSBigInt(IntToBI(0)), JSBigInt(IntToBI(0))>>
    /\ ret = Throw("RangeError")

(***************************************************************************)
(* C7 as stated: the class has a conversion from centineros to atomic      *)
(* units that returns c * 10000 for every integer c >= 0 and never fails.  *)
(***************************************************************************)
C7_CentinerosScaled ==
    (pc = "done" /\ call.fn = "centinerosToAtomicUnits")
        => ret = ReturnBig(BI(FALSE, NatMul(Arg.big.mag, NatOfInt(10000))))

(***************************************************************************)
(* C8 as stated: atomicUnitsToXmr accepts a bigint, or a string of an      *)
(* optional sign and decimal digits; on every other input (a number, null, *)
(* an object, "", a string padded with white space, "0x10", a string with  *)
(* a decimal point) it throws and returns nothing.                         *)
(***************************************************************************)
IsSignedDigits(s) ==
    /\ DecBody(s) # <<>>
    /\ AllDigits(DecBody(s))

AuAccepted(v) == Typeof(v) = "bigint" \/ (Typeof(v) = "string" /\ IsSignedDigits(v.str))

C8_RejectsOtherInputs ==
    (AuDone /\ ~AuAccepted(Arg)) => ret.kind = "throw"

(***************************************************************************)
(* C9 as stated: for every decimal string of more than 12 fractional       *)
(* digits xmrToAtomicUnits does not fail and returns exactly               *)
(* trunc(intVal * 10^12 / 10^fracLen): the digits beyond the twelfth are   *)
(* cut and nothing else is lost.                                           *)
(***************************************************************************)
C9_TruncatesBeyondTwelve ==
    (XmrDone /\ Arg.t = "string" /\ IsPlainDecimal(Arg.str) /\ Len(DecFrac(Arg.str)) > 12)
        => ret = ReturnBig(AtomicOf(Arg.str))

(***************************************************************************)
(* C10 as stated: xmrToAtomicUnits never returns a silently wrong amount.  *)
(* On a string that is not a plain decimal (white space or other           *)
(* characters around the number, a bare ".", a prefixed literal, several   *)
(* decimal points) and on a number (exponent notation included) the call   *)
(* throws, or returns the decimal value the input denotes times 10^12.     *)
(* (The empty string is the case of C3, the plain decimals those of C1 and *)
(* C9.)                                                                    *)
(***************************************************************************)
Denoted(s) == Trim(s)

C10_NeverSilentlyWrong ==
    (XmrDone /\ Arg.t \in {"string", "number"} /\ Arg.str # <<>>
             /\ ~IsPlainDecimal(Arg.str))
        => \/ ret.kind = "throw"
           \/ /\ IsLooseDecimal(Denoted(Arg.str))
              /\ ret = ReturnBig(AtomicOf(Denoted(Arg.str)))

====
